---- MODULE Spec2Model ----
(***************************************************************************)
(* A model of generator.py: the commit generator that fabricates a sorted  *)
(* list of random dates and, for each date, performs one weighted-random   *)
(* file operation (create / modify / delete), stages it with git and       *)
(* commits it with GIT_AUTHOR_DATE and GIT_COMMITTER_DATE overridden.      *)
(*                                                                         *)
(* Time is counted in ticks, TicksPerSecond ticks to a second, so that a   *)
(* datetime keeps a sub-second part that strftime("%Y-%m-%d %H:%M:%S")     *)
(* drops.  A file's content is a sequence of characters; "\n" is the       *)
(* newline character and any other string stands for a non-empty run of    *)
(* characters that holds no newline.  A path is <<root, name>> as os.walk  *)
(* yields it, and a name is <<stem, number, extension>>.                   *)
(*                                                                         *)
(* pc is the position of the run: "start", then for every date "scan"      *)
(* (get_existing_files), "operate" (the file operation), "stage" (git add  *)
(* or git rm) and "commit" (git commit), and "done" after the summary.     *)
(* These are the calls that can raise and between which the git tool or    *)
(* another process acts.  The commit message and the progress line that    *)
(* is printed every 50 iterations touch nothing else and are left out.     *)
(***************************************************************************)
EXTENDS Integers, Sequences, FiniteSets, TLC

VARIABLES
    NUM_COMMITS,     \* generator.py:12, the configured iteration count
    dates,           \* main: the sorted list of dates
    origin,          \* history: the draws behind every generated date
    start_files,     \* history: the working directory the run started in
    pc,              \* position of main / create_commit
    i,               \* main: the index of enumerate(dates, 1)
    existing_files,  \* perform_random_operation: result of get_existing_files()
    files,           \* the working directory: path -> content
    dirs,            \* the directories that exist
    index,           \* git: the paths in the index
    head_tree,       \* git: the paths in the tree of the HEAD commit
    staged,          \* git: the paths whose index entry differs from HEAD
    commits,         \* git: the commits, oldest first
    HEAD,            \* git: the position in commits of the current HEAD
    filename,        \* create_commit: the path the operation touched
    operation,       \* create_commit: "create", "modify" or "delete"
    errors,          \* stdout: the "Error creating commit {i}: {e}" lines
    summary,         \* stdout: the count the completion summary reports
    external         \* number of removals made by other processes

vars == <<NUM_COMMITS, dates, origin, start_files, pc, i, existing_files, files, dirs, index,
          head_tree, staged, commits, HEAD, filename, operation, errors,
          summary,
          external>>

(***************************************************************************)
(* Bounds of the model.                                                    *)
(***************************************************************************)
MaxCommits == 2
TicksPerSecond == 2
MaxExternal == 1

(***************************************************************************)
(* Constants of the program.                                               *)
(***************************************************************************)
YearDays == 365
MaxRandomDays == 365
MaxRandomSeconds == 86400
SecondsPerDay == 86400
MinFileNumber == 1000
MaxFileNumber == 9999
CreateBelow == 400
ModifyBelow == 800
RandScale == 1000
DeleteFloor == 5

(***************************************************************************)
(* generate_random_date                                                    *)
(***************************************************************************)
Seconds(n) == n * TicksPerSecond

timedelta(days, seconds) == Seconds(days * SecondsPerDay + seconds)

\* The values datetime.now() takes while the dates are generated: one with a
\* sub-second part, so that formatting to the second loses something.
Nows == {timedelta(YearDays, 0) + 1}

generate_random_date(end_date, random_days, random_seconds) ==
    LET start_date == end_date - timedelta(YearDays, 0)
    IN  start_date + timedelta(random_days, random_seconds)

\* The draws of (random.randint(0, 365), random.randint(0, 86400)): the
\* least of both, the most days with the least seconds, the most of both.
DateDraws == {<<0, 0>>, <<MaxRandomDays, 0>>, <<MaxRandomDays, MaxRandomSeconds>>}

Draws ==
    {[end_date |-> n, random_days |-> d[1], random_seconds |-> d[2],
      date |-> generate_random_date(n, d[1], d[2])] :
        n \in Nows, d \in DateDraws}

(***************************************************************************)
(* list.sort()                                                             *)
(***************************************************************************)
Insert(s, x) ==
    LET k == Cardinality({j \in 1..Len(s) : s[j] <= x})
    IN  SubSeq(s, 1, k) \o <<x>> \o SubSeq(s, k + 1, Len(s))

RECURSIVE InsertionSort(_)
InsertionSort(s) ==
    IF s = <<>> THEN <<>>
    ELSE Insert(InsertionSort(SubSeq(s, 1, Len(s) - 1)), s[Len(s)])

Unsorted(s) == s

RECURSIVE Reversed(_)
Reversed(s) == IF s = <<>> THEN <<>> ELSE <<s[Len(s)]>> \o Reversed(SubSeq(s, 1, Len(s) - 1))

SortedDescending(s) == Reversed(InsertionSort(s))

sort(s) == InsertionSort(s)

\* commit_date.strftime("%Y-%m-%d %H:%M:%S"): the date to the whole second.
strftime(t) == t \div TicksPerSecond

(***************************************************************************)
(* The working directory                                                   *)
(***************************************************************************)
Top == "."
Sub == "./sub"
DotGit == "./.git"

\* '.git' in root
DotGitIn(root) == root = DotGit

FileName(n) == <<"file_", n, ".txt">>

NoFile == <<"", <<"", 0, "">>>>

Source(k) == <<Top, <<"src_", k, ".py">>>>
Notes == <<Top, <<"notes_", 1, ".md">>>>
Data == <<Sub, <<"data_", 1, ".csv">>>>
Metadata == <<DotGit, <<"HEAD", 0, "">>>>

\* The draws of random.randint(1000, 9999): both ends of the range.
FileNumbers == {MinFileNumber, MaxFileNumber}

\* The draws of random.random(), in thousandths: both sides of each threshold.
RandDraws == {0, CreateBelow - 1, CreateBelow, ModifyBelow - 1, ModifyBelow,
              RandScale - 1}

NewContent == <<"Content generated at", "\n", "Random data: ", "\n">>

Appended == <<"\n", "Modified at", "\n", "Additional data: ", "\n">>

Tree(n) ==
    [p \in {Source(k) : k \in 1..(n - 2)} \cup {Notes, Data, Metadata} |->
        IF p = Data THEN <<"text">>
        ELSE IF p = Notes THEN <<>>
        ELSE <<"text", "\n">>]

EmptyTree == [p \in {Metadata} |-> <<"text", "\n">>]

\* The repositories the run can start in: an empty working directory and one
\* with 6 files.  Notes is untracked, Data has no final
\* newline and lives in a sub-directory.
InitialTrees ==
    {[files |-> EmptyTree, dirs |-> {Top, DotGit}, index |-> {}],
     [files |-> Tree(6), dirs |-> {Top, DotGit, Sub},
      index |-> {Source(1), Source(2), Source(3), Source(4), Data}]}

\* The order in which os.walk('.') lists the paths there can be: the files of
\* the top directory, then those of the sub-directories.
WalkOrder ==
    <<Notes, Source(1), Source(2), Source(3), Source(4),
      <<Top, FileName(MinFileNumber)>>, <<Top, FileName(MaxFileNumber)>>,
      Metadata, Data>>

IsListed(fs, p) == p \in DOMAIN fs /\ ~DotGitIn(p[1])

get_existing_files(fs) == SelectSeq(WalkOrder, LAMBDA p : IsListed(fs, p))

\* The draws of random.choice(seq): the first, the middle and the last
\* element.
ChoiceDraws(seq) ==
    IF seq = <<>> THEN {}
    ELSE {seq[1], seq[(Len(seq) + 1) \div 2], seq[Len(seq)]}

Write(fs, path, content) ==
    [p \in DOMAIN fs \cup {path} |-> IF p = path THEN content ELSE fs[p]]

Remove(fs, path) == [p \in DOMAIN fs \ {path} |-> fs[p]]

InitialCommit(t) ==
    [parent |-> 0, author_date |-> strftime(t), committer_date |-> strftime(t)]

Init ==
    /\ NUM_COMMITS \in 0..MaxCommits
    /\ dates = <<>>
    /\ origin = {}
    /\ pc = "start"
    /\ i = 1
    /\ existing_files = <<>>
    /\ \E t \in InitialTrees :
        /\ files = t.files
        /\ dirs = t.dirs
        /\ index = t.index
        /\ head_tree = t.index
    /\ start_files = files
    /\ staged = {}
    /\ \E n \in Nows : commits = <<InitialCommit(n)>>
    /\ HEAD = 1
    /\ filename = NoFile
    /\ operation = "none"
    /\ errors = <<>>
    /\ summary = -1
    /\ external = 0

git == <<index, head_tree, staged, commits, HEAD>>
worktree == <<files, dirs>>
generated == <<NUM_COMMITS, dates, origin, start_files>>

(***************************************************************************)
(* main, lines 176-180: generate the dates and sort them                   *)
(***************************************************************************)
Generate ==
    /\ pc = "start"
    /\ \E draws \in [1..NUM_COMMITS -> Draws] :
        /\ dates' = sort([k \in 1..NUM_COMMITS |-> draws[k].date])
        /\ origin' = {draws[k] : k \in 1..NUM_COMMITS}
    /\ i' = 1
    /\ pc' = "scan"
    /\ UNCHANGED <<NUM_COMMITS, start_files, existing_files, worktree, git, filename,
                   operation, errors, summary, external>>

(***************************************************************************)
(* main, lines 187-189: the except clause of the loop body.  The message   *)
(* of the exception names the path (OSError) or the command               *)
(* (CalledProcessError); create_commit's locals are gone.                  *)
(***************************************************************************)
ExceptAborts(e, path) ==
    /\ errors' = Append(errors, [i |-> i, e |-> e, path |-> path])
    /\ i' = i
    /\ pc' = "crashed"
    /\ existing_files' = <<>>
    /\ filename' = NoFile
    /\ operation' = "none"

Except(e, path) ==
    /\ errors' = Append(errors, [i |-> i, e |-> e, path |-> path])
    /\ i' = i + 1
    /\ pc' = "scan"
    /\ existing_files' = <<>>
    /\ filename' = NoFile
    /\ operation' = "none"

(***************************************************************************)
(* perform_random_operation, line 110                                      *)
(***************************************************************************)
Scan ==
    /\ pc = "scan"
    /\ i <= NUM_COMMITS
    /\ existing_files' = get_existing_files(files)
    /\ pc' = "operate"
    /\ UNCHANGED <<generated, i, worktree, git, filename, operation, errors,
                   summary, external>>

(***************************************************************************)
(* create_file, modify_file, delete_file                                   *)
(***************************************************************************)
\* The operation returned: perform_random_operation hands (filename,
\* operation) to create_commit.
Returned(path, kind, fs) ==
    /\ files' = fs
    /\ existing_files' = <<>>
    /\ filename' = path
    /\ operation' = kind
    /\ pc' = "stage"
    /\ UNCHANGED <<i, errors>>

\* The operation raised: nothing was written.
Raised(e, path) ==
    /\ files' = files
    /\ Except(e, path)

create_file(n, ok) ==
    LET path == <<Top, FileName(n)>>
    IN  IF ok
        THEN Returned(path, "create", Write(files, path, NewContent))
        ELSE Raised("PermissionError", path)

AppendedWithoutBlank == SubSeq(Appended, 2, Len(Appended))

modify_appends_two_lines(path, ok) ==
    IF path[1] \notin dirs
    THEN Raised("FileNotFoundError", path)
    ELSE IF ok
    THEN Returned(path, "modify", Write(files, path,
            (IF path \in DOMAIN files THEN files[path] ELSE <<>>)
            \o AppendedWithoutBlank))
    ELSE Raised("PermissionError", path)

\* open(filename, 'a') creates the file when it is missing; it raises
\* FileNotFoundError only when the directory is missing.
modify_file(path, ok) ==
    IF path[1] \notin dirs
    THEN Raised("FileNotFoundError", path)
    ELSE IF ok
    THEN Returned(path, "modify", Write(files, path,
            (IF path \in DOMAIN files THEN files[path] ELSE <<>>)
            \o Appended))
    ELSE Raised("PermissionError", path)

delete_file(path, ok) ==
    IF path \notin DOMAIN files
    THEN Raised("FileNotFoundError", path)
    ELSE IF ok
    THEN Returned(path, "delete", Remove(files, path))
    ELSE Raised("PermissionError", path)

(***************************************************************************)
(* perform_random_operation, lines 113-138                                 *)
(***************************************************************************)
MayDeleteAtFloor(found) == Len(found) >= DeleteFloor

MayDelete(found) == Len(found) > DeleteFloor

ForcedCreateNever(found) == FALSE

ForcedCreate(found) == found = <<>>

Operate ==
    /\ pc = "operate"
    /\ \E rand \in RandDraws, n \in FileNumbers, ok \in BOOLEAN :
        IF ForcedCreate(existing_files)
        THEN create_file(n, ok)
        ELSE IF rand < CreateBelow THEN create_file(n, ok)
        \* random.choice of an empty list raises IndexError
        ELSE IF existing_files = <<>> THEN Raised("IndexError", NoFile)
        ELSE \E target \in ChoiceDraws(existing_files) :
            IF rand < ModifyBelow THEN modify_file(target, ok)
            ELSE IF MayDelete(existing_files) THEN delete_file(target, ok)
            ELSE modify_file(target, ok)
    /\ UNCHANGED <<generated, dirs, git, summary, external>>

(***************************************************************************)
(* create_commit, lines 146-152: git rm / git add, check=True              *)
(***************************************************************************)
\* The index entry of path after it was staged, against the HEAD tree.
Restaged(path, present) ==
    IF present \/ path \in head_tree THEN staged \cup {path}
    ELSE staged \ {path}

\* git rm exits non-zero on a path that is not in the index; it removes the
\* path from the index and from the working directory.
git_rm(ok) ==
    IF ok /\ filename \in index
    THEN /\ index' = index \ {filename}
         /\ staged' = Restaged(filename, FALSE)
         /\ files' = Remove(files, filename)
         /\ pc' = "commit"
         /\ UNCHANGED <<i, errors, filename, operation, existing_files>>
    ELSE /\ UNCHANGED <<index, staged, files>>
         /\ Except("CalledProcessError", filename)

git_add_unlinks_on_failure(ok) ==
    IF ok /\ (filename \in DOMAIN files \/ filename \in index)
    THEN /\ index' = IF filename \in DOMAIN files
                     THEN index \cup {filename} ELSE index \ {filename}
         /\ staged' = Restaged(filename, filename \in DOMAIN files)
         /\ files' = files
         /\ pc' = "commit"
         /\ UNCHANGED <<i, errors, filename, operation, existing_files>>
    ELSE /\ UNCHANGED <<index, staged>>
         /\ files' = Remove(files, filename)
         /\ Except("CalledProcessError", filename)

\* git add exits non-zero on a path that is neither in the working directory
\* nor in the index; a tracked path that is gone is staged as a removal.
git_add(ok) ==
    IF ok /\ (filename \in DOMAIN files \/ filename \in index)
    THEN /\ index' = IF filename \in DOMAIN files
                     THEN index \cup {filename} ELSE index \ {filename}
         /\ staged' = Restaged(filename, filename \in DOMAIN files)
         /\ files' = files
         /\ pc' = "commit"
         /\ UNCHANGED <<i, errors, filename, operation, existing_files>>
    ELSE /\ UNCHANGED <<index, staged, files>>
         /\ Except("CalledProcessError", filename)

Stage ==
    /\ pc = "stage"
    /\ \E ok \in BOOLEAN :
        IF operation = "delete" THEN git_rm(ok) ELSE git_add(ok)
    /\ UNCHANGED <<generated, dirs, head_tree, commits, HEAD, summary, external>>

(***************************************************************************)
(* create_commit, lines 154-168: git commit with the dates overridden      *)
(***************************************************************************)
NewCommitCommitterNow(commit_date) ==
    [parent |-> HEAD, author_date |-> strftime(commit_date),
     committer_date |-> strftime(commit_date) + 1]

NewCommit(commit_date) ==
    LET date_str == strftime(commit_date)
    IN  [parent |-> HEAD, author_date |-> date_str, committer_date |-> date_str]

\* git commit exits non-zero when nothing is staged; a commit becomes the
\* child of HEAD and HEAD moves to it.
git_commit(ok) ==
    IF ok /\ staged # {}
    THEN /\ commits' = Append(commits, NewCommit(dates[i]))
         /\ HEAD' = Len(commits) + 1
         /\ head_tree' = index
         /\ staged' = {}
         /\ i' = i + 1
         /\ pc' = "scan"
         /\ filename' = NoFile
         /\ operation' = "none"
         /\ UNCHANGED <<errors, existing_files>>
    ELSE /\ UNCHANGED <<commits, HEAD, head_tree, staged>>
         /\ Except("CalledProcessError", NoFile)

Commit ==
    /\ pc = "commit"
    /\ \E ok \in BOOLEAN : git_commit(ok)
    /\ UNCHANGED <<generated, worktree, index, summary, external>>

(***************************************************************************)
(* main, line 191: the completion summary                                  *)
(***************************************************************************)
Summary ==
    /\ pc = "scan"
    /\ i > NUM_COMMITS
    /\ summary' = NUM_COMMITS
    /\ pc' = "done"
    /\ UNCHANGED <<generated, i, existing_files, worktree, git, filename,
                   operation, errors, external>>

(***************************************************************************)
(* Another process removes a file, or the sub-directory with all in it,    *)
(* between the read of the file set and the operation.                     *)
(***************************************************************************)
ExternalRemove ==
    /\ pc = "operate"
    /\ external < MaxExternal
    /\ external' = external + 1
    /\ \/ \E p \in ChoiceDraws(existing_files) :
            /\ p \in DOMAIN files
            /\ files' = Remove(files, p)
            /\ dirs' = dirs
       \/ /\ Sub \in dirs
          /\ files' = [p \in {q \in DOMAIN files : q[1] # Sub} |-> files[p]]
          /\ dirs' = dirs \ {Sub}
    /\ UNCHANGED <<generated, pc, i, existing_files, git, filename, operation,
                   errors, summary>>

Next == Generate \/ Scan \/ Operate \/ Stage \/ Commit \/ Summary

\* The run alone.
Spec == Init /\ [][Next]_vars

\* The run alone; every call returns, so the program keeps taking steps.
FairSpec == Spec /\ WF_vars(Next)

NextRace == Next \/ ExternalRemove

\* The run with another process that removes files under it.
SpecRace == Init /\ [][NextRace]_vars

(***************************************************************************)
(* Properties                                                              *)
(***************************************************************************)
Sorted(s) == \A j, k \in 1..Len(s) : j <= k => s[j] <= s[k]

\* The number of files of a working directory outside the git metadata.
FileCount(fs) == Cardinality({p \in DOMAIN fs : ~DotGitIn(p[1])})

\* file_<4 digits>.txt in the top directory
IsGeneratedName(p) ==
    /\ p[1] = Top
    /\ p[2][1] = "file_"
    /\ p[2][2] \in MinFileNumber..MaxFileNumber
    /\ p[2][3] = ".txt"

Newest(cs) == cs[Len(cs)]

\* len(content.splitlines())
LineCount(content) ==
    Cardinality({k \in 1..Len(content) : content[k] = "\n"})
    + (IF content # <<>> /\ content[Len(content)] # "\n" THEN 1 ELSE 0)

\* content.count("\n")
NewlineCount(content) ==
    Cardinality({k \in 1..Len(content) : content[k] = "\n"})

EndsLine(content) == content = <<>> \/ content[Len(content)] = "\n"

\* C1: the date list has NUM_COMMITS dates, the ones drawn, in non-decreasing
\* order; it is not changed while the loop runs; the loop index advances by
\* one, from inside an iteration only, and the commit of iteration i carries
\* dates[i].
C1_DatesSortedAndConsumedInOrder ==
    /\ [](pc # "start" =>
            /\ Len(dates) = NUM_COMMITS
            /\ Sorted(dates)
            /\ {dates[k] : k \in 1..Len(dates)} = {o.date : o \in origin})
    /\ [][/\ pc # "start" => dates' = dates
          /\ i' # i => /\ i' = i + 1
                       /\ i <= NUM_COMMITS
                       /\ pc \in {"operate", "stage", "commit"}
          /\ Len(commits') > Len(commits) =>
                Newest(commits').author_date = strftime(dates[i])]_vars

C1_Witness ==
    /\ pc = "done"
    /\ NUM_COMMITS = 2
    /\ dates[1] < dates[2]
    /\ Len(commits) = 3
    /\ commits[2].author_date < commits[3].author_date

\* C2: a commit step that succeeds appends exactly one commit, a child of
\* HEAD, whose author date and committer date are both the iteration's date
\* formatted to the second; no step removes or alters an earlier commit; a
\* commit is appended by the commit step only, which ends the iteration, so
\* no date serves two commits.
C2_CommitAppendsChildOfHeadWithBothDates ==
    [][/\ (pc = "commit" /\ pc' = "scan" /\ errors' = errors) =>
            /\ Len(commits') = Len(commits) + 1
            /\ Newest(commits').parent = HEAD
            /\ HEAD' = Len(commits')
            /\ Newest(commits').author_date = strftime(dates[i])
            /\ Newest(commits').committer_date = strftime(dates[i])
       /\ Len(commits') >= Len(commits)
       /\ SubSeq(commits', 1, Len(commits)) = commits
       /\ Len(commits') > Len(commits) =>
            /\ Len(commits') = Len(commits) + 1
            /\ pc = "commit"
            /\ i' = i + 1
       /\ i' >= i]_vars

C2_Witness ==
    /\ pc = "done"
    /\ Len(commits) = 3
    /\ commits[2].parent = 1
    /\ commits[3].parent = 2
    /\ HEAD = 3
    /\ Seconds(commits[3].author_date) # dates[2]
    /\ commits[3].author_date = commits[3].committer_date

\* C3: whatever fails, the run reaches the completion summary, having gone
\* through the iterations 1..NUM_COMMITS one after the other.
C3_RunReachesSummary ==
    /\ <>(pc = "done")
    /\ [](pc = "done" => i = NUM_COMMITS + 1 /\ summary = NUM_COMMITS)
    /\ [][/\ i' # i => /\ i' = i + 1
                       /\ pc \in {"operate", "stage", "commit"}
          /\ pc' = "operate" => (pc = "scan" /\ i' = i /\ i <= NUM_COMMITS)]_vars

C3_Witness ==
    /\ pc = "done"
    /\ NUM_COMMITS = 2
    /\ Len(errors) = 2
    /\ errors[1].e = "PermissionError"
    /\ errors[2].e = "CalledProcessError"
    /\ summary = 2

\* C4: a failing git add, git rm or git commit leaves the working directory
\* as the iteration's operation made it, creates no commit and ends the
\* iteration; the next iteration lists every file that is then in the
\* working directory, and no other.
C4_FailedStageOrCommitKeepsChange ==
    [][/\ (pc \in {"stage", "commit"} /\ Len(errors') > Len(errors)) =>
            /\ files' = files
            /\ commits' = commits
            /\ HEAD' = HEAD
            /\ head_tree' = head_tree
            /\ i' = i + 1
            /\ pc' = "scan"
       /\ (pc = "scan" /\ pc' = "operate") =>
            /\ files' = files
            /\ \A p \in DOMAIN files : ~DotGitIn(p[1]) =>
                    \E k \in 1..Len(existing_files') : existing_files'[k] = p
            /\ \A k \in 1..Len(existing_files') :
                    existing_files'[k] \in DOMAIN files]_vars

C4_Witness ==
    /\ pc = "operate"
    /\ i = 2
    /\ Len(errors) = 1
    /\ errors[1].i = 1
    /\ errors[1].e = "CalledProcessError"
    /\ Len(commits) = 1
    /\ FileCount(start_files) = 0
    /\ Len(existing_files) = 1
    /\ IsGeneratedName(existing_files[1])
    /\ existing_files[1] \in staged

\* C5: no operation is a delete when at most 5 files were listed; the number
\* of files goes down only by a delete made with more than 5 files listed,
\* which leaves at least 5; once there are at least 5 files there are never
\* fewer.
C5_DeleteOnlyAboveFloor ==
    [][/\ (pc = "operate" /\ Len(existing_files) <= DeleteFloor) =>
            operation' # "delete"
       /\ FileCount(files') < FileCount(files) =>
            /\ pc = "operate"
            /\ operation' = "delete"
            /\ Len(existing_files) > DeleteFloor
            /\ FileCount(files') >= DeleteFloor
       /\ FileCount(files) >= DeleteFloor => FileCount(files') >= DeleteFloor]_vars

C5_Witness ==
    /\ pc = "stage"
    /\ i = 2
    /\ operation = "modify"
    /\ FileCount(start_files) = 6
    /\ FileCount(files) = DeleteFloor
    /\ Len(commits) = 2

\* C6: with no file listed the operation is a create, which fails only as
\* the write fails; a run of one iteration that starts in an empty working
\* directory and meets no error ends with one new commit, dated as the one
\* date formatted to the second, and one file, named file_<4 digits>.txt.
C6_EmptyDirectoryForcesCreate ==
    /\ [][(pc = "operate" /\ existing_files = <<>> /\ pc' # "operate") =>
            \/ /\ operation' = "create"
               /\ IsGeneratedName(filename')
               /\ filename' \in DOMAIN files'
               /\ errors' = errors
            \/ /\ errors' = Append(errors, [i |-> i, e |-> "PermissionError",
                                            path |-> Newest(errors').path])
               /\ IsGeneratedName(Newest(errors').path)
               /\ files' = files]_vars
    /\ []((pc = "done" /\ NUM_COMMITS = 1 /\ FileCount(start_files) = 0
           /\ errors = <<>>) =>
            /\ Len(commits) = 2
            /\ commits[2].parent = 1
            /\ commits[2].author_date = strftime(dates[1])
            /\ commits[2].committer_date = strftime(dates[1])
            /\ FileCount(files) = 1
            /\ \A p \in DOMAIN files : ~DotGitIn(p[1]) => IsGeneratedName(p))

C6_Witness ==
    /\ pc = "done"
    /\ NUM_COMMITS = 1
    /\ FileCount(start_files) = 0
    /\ errors = <<>>
    /\ Len(commits) = 2
    /\ FileCount(files) = 1

\* C7: every generated date lies in [end_date - 365 days, end_date], where
\* end_date is the datetime.now() of its generation.
C7_DatesWithinLastYear ==
    \A o \in origin :
        /\ o.end_date - timedelta(YearDays, 0) <= o.date
        /\ o.date <= o.end_date

\* What a modify step does to the file it names, old content against new.
ModifyStep == pc = "operate" /\ operation' = "modify"

OthersUnchanged ==
    /\ DOMAIN files' = DOMAIN files
    /\ \A p \in DOMAIN files : p # filename' => files'[p] = files[p]

\* C8, as claimed: modify adds exactly 2 to the line count of the file,
\* keeps the old content as a prefix and changes no other file.
C8_ModifyAddsTwoLines ==
    [][ModifyStep =>
            /\ filename' \in DOMAIN files
            /\ LineCount(files'[filename']) = LineCount(files[filename']) + 2
            /\ SubSeq(files'[filename'], 1, Len(files[filename'])) = files[filename']
            /\ OthersUnchanged]_vars

\* C8, amended: modify appends a newline and two lines: 3 more newline
\* characters; the line count goes up by 3 when the old content is empty or
\* ends with a newline (a blank line and the two lines) and by 2 otherwise;
\* the old content stays as a prefix and no other file changes.
C8_ModifyAppendsBlankAndTwoLines ==
    [][ModifyStep =>
            /\ filename' \in DOMAIN files
            /\ NewlineCount(files'[filename']) = NewlineCount(files[filename']) + 3
            /\ LineCount(files'[filename']) = LineCount(files[filename'])
                    + (IF EndsLine(files[filename']) THEN 3 ELSE 2)
            /\ Len(files'[filename']) > Len(files[filename'])
            /\ SubSeq(files'[filename'], 1, Len(files[filename'])) = files[filename']
            /\ OthersUnchanged]_vars

C8_Witness ==
    /\ pc = "stage"
    /\ operation = "modify"
    /\ filename = Source(2)
    /\ start_files[filename] = <<"text", "\n">>
    /\ LineCount(start_files[filename]) = 1
    /\ LineCount(files[filename]) = 4
    /\ i = 1

\* C9: a modify returns only for a path that was there, and adds no path to
\* the working directory: on a missing path it raises and writes nothing.
C9_ModifyOfMissingPathRaises ==
    [][ModifyStep =>
            /\ filename' \in DOMAIN files
            /\ DOMAIN files' = DOMAIN files]_vars

\* C10: the commits the run appended, each the child of the one before, have
\* non-decreasing dates; every finished iteration either appended a commit
\* or printed an error, so that at the end the appended commits number
\* NUM_COMMITS less the errors, while the summary says NUM_COMMITS.
C10_AppendedDatesNonDecreasing ==
    /\ \A j, k \in 2..Len(commits) : j <= k =>
            /\ commits[j].author_date <= commits[k].author_date
            /\ commits[j].committer_date <= commits[k].committer_date
    /\ \A k \in 2..Len(commits) : commits[k].parent = k - 1
    /\ (Len(commits) - 1) + Len(errors) = i - 1
    /\ Len(commits) - 1 <= NUM_COMMITS
    /\ pc = "done" =>
            /\ Len(commits) - 1 = NUM_COMMITS - Len(errors)
            /\ summary = NUM_COMMITS

C10_Witness ==
    /\ pc = "done"
    /\ NUM_COMMITS = 2
    /\ Len(errors) = 1
    /\ errors[1].i = 1
    /\ Len(commits) = 2
    /\ commits[2].author_date = strftime(dates[2])
    /\ summary = 2

====
